---- MODULE Spec2Model ----
(***************************************************************************)
(* Model of export_critiques_to_tex.py: the text escaper, the display-math *)
(* formatter, the boxed-brace repair, the summary tabulator, the record    *)
(* renderer and the document assembler.                                    *)
(*                                                                         *)
(* A Python string is a sequence of one-character strings.  A JSON value   *)
(* that may or may not be a string is a record [isStr, chars].             *)
(***************************************************************************)
EXTENDS Integers, Sequences, FiniteSets, TLC

VARIABLES pc, arg, ret, ret2, entry, idx, stats, before, section, raised,
          inputFile, outputFile, console

vars == <<pc, arg, ret, ret2, entry, idx, stats, before, section, raised,
          inputFile, outputFile, console>>

(***************************************************************************)
(* Bounds of the model.                                                    *)
(***************************************************************************)
MaxFmtTokens == 5
MaxEscLen == 5
MaxBraceTokens == 7
MaxRecords == 2
MaxExportRecords == 2

(***************************************************************************)
(* Strings.                                                                *)
(***************************************************************************)
BS == "\\"
NL == "\n"

Str(s) == [isStr |-> TRUE, chars |-> s]
NonStr == [isStr |-> FALSE, chars |-> <<>>]

RECURSIVE Flatten(_)
Flatten(ss) == IF ss = <<>> THEN <<>> ELSE Head(ss) \o Flatten(Tail(ss))

TokenStrings(tokens, maxTokens) ==
    { Flatten(f) : f \in UNION { [1..k -> tokens] : k \in 0..maxTokens } }

SetMin(S) == CHOOSE x \in S : \A y \in S : x <= y
SetMax(S) == CHOOSE x \in S : \A y \in S : x >= y

StartsWith(s, p) == Len(s) >= Len(p) /\ SubSeq(s, 1, Len(p)) = p
EndsWith(s, p) == Len(s) >= Len(p) /\ SubSeq(s, Len(s) - Len(p) + 1, Len(s)) = p
Contains(s, p) == \E i \in 1..(Len(s) - Len(p) + 1) : SubSeq(s, i, i + Len(p) - 1) = p
Count(s, c) == Cardinality({ i \in 1..Len(s) : s[i] = c })

RECURSIVE Repeat(_, _)
Repeat(c, k) == IF k <= 0 THEN <<>> ELSE <<c>> \o Repeat(c, k - 1)

(* str.strip(): the whitespace of the modelled alphabet is space and newline *)
Whitespace == {" ", NL}
Strip(s) ==
    LET keep == { i \in 1..Len(s) : s[i] \notin Whitespace }
    IN  IF keep = {} THEN <<>> ELSE SubSeq(s, SetMin(keep), SetMax(keep))

(***************************************************************************)
(* escape_latex: every character of the class & % $ # _ { } is replaced   *)
(* by a backslash followed by itself                                      *)
(***************************************************************************)
Reserved == {"&", "%", "$", "#", "_", "{", "}"}

RECURSIVE EscapeChars(_)
EscapeCharsNoBrace(s) ==
    IF s = <<>> THEN <<>>
    ELSE (IF Head(s) \in Reserved \ {"{", "}"} THEN <<BS, Head(s)>> ELSE <<Head(s)>>)
         \o EscapeChars(Tail(s))
EscapeChars(s) ==
    IF s = <<>> THEN <<>>
    ELSE (IF Head(s) \in Reserved THEN <<BS, Head(s)>> ELSE <<Head(s)>>)
         \o EscapeChars(Tail(s))

escape_latex(text) == IF ~text.isStr THEN <<>> ELSE EscapeChars(text.chars)

(***************************************************************************)
(* format_tex_display_math                                                 *)
(***************************************************************************)
DelimOpen(k) == CASE k = 1 -> <<BS, "[">> [] k = 2 -> <<BS, "(">>
                  [] k = 3 -> <<"$", "$">> [] k = 4 -> <<"$">>
DelimClose(k) == CASE k = 1 -> <<BS, "]">> [] k = 2 -> <<BS, ")">>
                   [] k = 3 -> <<"$", "$">> [] k = 4 -> <<"$">>

Inner(k, t) == SubSeq(t, Len(DelimOpen(k)) + 1, Len(t) - Len(DelimClose(k)))

(* the anchored pattern open, any characters, close matched against the  *)
(* whole of t; the any-character class excludes newline                  *)
FullMatch(k, t) ==
    /\ Len(t) >= Len(DelimOpen(k)) + Len(DelimClose(k))
    /\ StartsWith(t, DelimOpen(k))
    /\ EndsWith(t, DelimClose(k))
    /\ ~Contains(Inner(k, t), <<NL>>)

(* '$' also matches just before a newline that ends the string *)
Matches(k, t) ==
    \/ FullMatch(k, t)
    \/ EndsWith(t, <<NL>>) /\ FullMatch(k, SubSeq(t, 1, Len(t) - 1))

(* re.sub(pattern k, r'\1', t) *)
ReSub(k, t) ==
    IF FullMatch(k, t) THEN Inner(k, t)
    ELSE IF Matches(k, t) THEN Inner(k, SubSeq(t, 1, Len(t) - 1)) \o <<NL>>
    ELSE t

Unwrap(k, t) == Strip(ReSub(k, t))

DisplayMath(t) == <<BS, "[", " ">> \o t \o <<" ", BS, "]">>

UnwrapFirstOnly(t) ==
    IF \E k \in 1..4 : Matches(k, t)
    THEN Unwrap(SetMin({ k \in 1..4 : Matches(k, t) }), t)
    ELSE t
UnwrapAll(t) == Unwrap(4, Unwrap(3, Unwrap(2, Unwrap(1, t))))

format_tex_display_math(text) ==
    IF ~text.isStr THEN <<>> ELSE DisplayMath(UnwrapAll(Strip(text.chars)))

(***************************************************************************)
(* Brace repair around \boxed{ (generate_critiques_section, both copies)   *)
(***************************************************************************)
Boxed == <<BS, "b", "o", "x", "e", "d", "{">>

FixBoxedBracesOpenCount(s) ==
    IF Contains(s, Boxed)
    THEN IF Count(s, "{") # Count(s, "}")
         THEN IF Count(s, "{") > Count(s, "}")
              THEN s \o Repeat("}", Count(s, "{"))
              ELSE s
         ELSE s
    ELSE s
FixBoxedBraces(s) ==
    IF Contains(s, Boxed)
    THEN IF Count(s, "{") # Count(s, "}")
         THEN IF Count(s, "{") > Count(s, "}")
              THEN s \o Repeat("}", Count(s, "{") - Count(s, "}"))
              ELSE s
         ELSE s
    ELSE s

(***************************************************************************)
(* Critique records.  A JSON field is modelled by the distinctions the     *)
(* code draws on it: "absent" (key missing), "nonobj" / "null" / "list"    *)
(* (a value of another JSON type) or "obj" with the keys the code reads.   *)
(* A critiques value of kind "null" admits no membership test (null, a     *)
(* number, a boolean); one of kind "list" admits the test but no subscript *)
(* by name (an array, whose elements are tested, or a string, whose        *)
(* substrings are): its category fields are "element" where the test       *)
(* finds the name and "absent" elsewhere.                                  *)
(***************************************************************************)
Tri == {"absent", "true", "false"}

(* dict.get(key, default) on a JSON boolean, then Python truthiness *)
Truthy(v, default) == IF v = "absent" THEN default ELSE v = "true"

NoCategory == [kind |-> "absent", flag |-> "absent", error |-> FALSE, issues |-> "absent"]
NoCritiques == [kind |-> "absent", self_containment |-> NoCategory,
                difficulty |-> NoCategory, useful_derivation |-> NoCategory]
NoOriginal == [kind |-> "absent", statement |-> "absent", solution |-> "absent"]
NoRefined == [kind |-> "absent", error |-> FALSE, statementKey |-> "absent",
              solutionKey |-> "absent", solution |-> "absent"]
NoEntry == [paper_id |-> "absent", removed |-> "absent", included |-> "absent",
            reason |-> "absent", original |-> NoOriginal, critiques |-> NoCritiques,
            refined |-> NoRefined]

Categories == {"self_containment", "difficulty", "useful_derivation"}

(* "x" in critiques and isinstance(critiques["x"], dict) *)
HoldsObject(e, c) == e.critiques.kind = "obj" /\ e.critiques[c].kind = "obj"

(* "x" in critiques *)
HasCategory(e, c) ==
    e.critiques.kind \in {"obj", "list"} /\ e.critiques[c].kind # "absent"

(* critiques["x"], reached after the membership test, on a list or string *)
SubscriptRaises(e) ==
    e.critiques.kind = "list" /\ \E c \in Categories : HasCategory(e, c)

(***************************************************************************)
(* generate_summary_table                                                  *)
(***************************************************************************)
ZeroStats == [self_containment |-> [pass |-> 0, fail |-> 0],
              difficulty |-> [pass |-> 0, fail |-> 0, removed |-> 0],
              useful_derivation |-> [pass |-> 0, fail |-> 0, removed |-> 0],
              refinement |-> [success |-> 0, fail |-> 0]]

Bump(counts, key) == [counts EXCEPT ![key] = @ + 1]

(* the membership test of line 73 on a critiques value that is null, or   *)
(* the subscript of lines 73, 80 and 88 on a list that holds the name      *)
SummaryRaises(e) == e.critiques.kind = "null" \/ SubscriptRaises(e)

TallySelfContainment(st, e) ==
    IF HoldsObject(e, "self_containment")
    THEN IF Truthy(e.critiques.self_containment.flag, FALSE)
         THEN Bump(st.self_containment, "pass")
         ELSE Bump(st.self_containment, "fail")
    ELSE st.self_containment

TallyDifficulty(st, e) ==
    IF HoldsObject(e, "difficulty")
    THEN IF Truthy(e.removed, FALSE)
         THEN Bump(st.difficulty, "removed")
         ELSE IF Truthy(e.critiques.difficulty.flag, FALSE)
              THEN Bump(st.difficulty, "pass")
              ELSE Bump(st.difficulty, "fail")
    ELSE st.difficulty

TallyUsefulDerivation(st, e) ==
    IF HoldsObject(e, "useful_derivation")
    THEN IF Truthy(e.removed, FALSE) /\ ~Truthy(e.critiques.useful_derivation.flag, TRUE)
         THEN Bump(st.useful_derivation, "removed")
         ELSE IF Truthy(e.critiques.useful_derivation.flag, FALSE)
              THEN Bump(st.useful_derivation, "pass")
              ELSE Bump(st.useful_derivation, "fail")
    ELSE st.useful_derivation

(* critique_entry.get("refined_problem", {}): an absent key is the empty object *)
RefinedIsCleanObject(e) ==
    \/ e.refined.kind = "absent"
    \/ e.refined.kind = "obj" /\ ~e.refined.error

TallyRefinement(st, e) ==
    IF ~Truthy(e.removed, FALSE)
    THEN IF RefinedIsCleanObject(e)
         THEN Bump(st.refinement, "success")
         ELSE Bump(st.refinement, "fail")
    ELSE st.refinement

Tally(st, e) ==
    [self_containment |-> TallySelfContainment(st, e),
     difficulty |-> TallyDifficulty(st, e),
     useful_derivation |-> TallyUsefulDerivation(st, e),
     refinement |-> TallyRefinement(st, e)]

(* Binary floating point of line 130.  A natural number is a sequence of   *)
(* limbs of LimbBits bits, least significant first; a float is [m, e] with *)
(* m such a number of exactly MantissaBits bits, standing for m * 2^e.     *)
MantissaBits == 53

LimbBits == 13

Radix == 2 ^ LimbBits

LimbAt(l, i) == IF i >= 1 /\ i <= Len(l) THEN l[i] ELSE 0

RECURSIVE ValueOf(_)
ValueOf(l) == IF l = <<>> THEN 0 ELSE Head(l) + Radix * ValueOf(Tail(l))

(* l * c + carry for a small c *)
RECURSIVE TimesSmall(_, _, _)
TimesSmall(l, c, carry) ==
    IF l = <<>> THEN (IF carry = 0 THEN <<>> ELSE <<carry>>)
    ELSE LET v == Head(l) * c + carry
         IN  <<v % Radix>> \o TimesSmall(Tail(l), c, v \div Radix)

RECURSIVE PlusOne(_)
PlusOne(l) ==
    IF l = <<>> THEN <<1>>
    ELSE IF Head(l) + 1 < Radix THEN <<Head(l) + 1>> \o Tail(l)
    ELSE <<0>> \o PlusOne(Tail(l))

(* the number of significant bits of l, whose top limb is not zero *)
BitLength(l) ==
    (Len(l) - 1) * LimbBits
        + Cardinality({k \in 0..(LimbBits - 1) : 2 ^ k <= l[Len(l)]})

(* l divided by 2^n, rounded down *)
ShiftRight(l, n) ==
    LET a == n \div LimbBits
        d == n % LimbBits
    IN  [i \in 1..(IF Len(l) > a THEN Len(l) - a ELSE 0) |->
            (l[a + i] \div (2 ^ d))
                + (LimbAt(l, a + i + 1) % (2 ^ d)) * (2 ^ (LimbBits - d))]

(* whether l is not a multiple of 2^n *)
DroppedNonzero(l, n) ==
    \/ \E i \in 1..(n \div LimbBits) : LimbAt(l, i) # 0
    \/ LimbAt(l, n \div LimbBits + 1) % (2 ^ (n % LimbBits)) # 0

(* l divided by 2^n, rounded to nearest, a tie to even *)
RoundShift(l, n) ==
    IF n = 0 THEN l
    ELSE LET guarded == ShiftRight(l, n - 1)
             keep == ShiftRight(guarded, 1)
             half == LimbAt(guarded, 1) % 2 = 1
             sticky == DroppedNonzero(l, n - 1)
             odd == LimbAt(keep, 1) % 2 = 1
         IN  IF half /\ (sticky \/ odd) THEN PlusOne(keep) ELSE keep

(* a rounding that carried into bit MantissaBits + 1 left a power of two *)
Renormalized(m, e) ==
    IF BitLength(m) > MantissaBits
    THEN [m |-> ShiftRight(m, 1), e |-> e + 1]
    ELSE [m |-> m, e |-> e]

RoundToMantissa(l, e) ==
    LET d == BitLength(l) - MantissaBits
    IN  Renormalized(RoundShift(l, d), e + d)

(* x and t scaled by powers of two until t <= x < 2t; x / t is then the    *)
(* original quotient times 2^k                                              *)
RECURSIVE Normalized(_, _, _)
Normalized(x, t, k) ==
    IF x >= 2 * t THEN Normalized(x, 2 * t, k - 1)
    ELSE IF x < t THEN Normalized(2 * x, t, k + 1)
    ELSE [x |-> x, t |-> t, k |-> k]

(* n further limbs of the quotient by long division, and the remainder *)
RECURSIVE QuotientLimbs(_, _, _, _)
QuotientLimbs(r, t, n, acc) ==
    IF n = 0 THEN [m |-> acc, rest |-> r]
    ELSE QuotientLimbs((r * Radix) % t, t, n - 1, <<(r * Radix) \div t>> \o acc)

(* pass_count / total: the quotient of two positive integers rounded to    *)
(* MantissaBits bits; operands below 2^17 keep every product below 2^31    *)
FloatDivide(p, t) ==
    LET n == Normalized(p, t, 0)
        q == QuotientLimbs(n.x - n.t, n.t, (MantissaBits - 1) \div LimbBits, <<>>)
        m == q.m \o <<1>>
        up == 2 * q.rest > n.t \/ (2 * q.rest = n.t /\ m[1] % 2 = 1)
    IN  Renormalized(IF up THEN PlusOne(m) ELSE m, (0 - n.k) - (MantissaBits - 1))

(* ... * 100: the product by a small positive integer, rounded *)
FloatTimes(f, c) == RoundToMantissa(TimesSmall(f.m, c, 0), f.e)

(* the format .1f: the exact value of a float below 2^MantissaBits rounded *)
(* to one decimal place, a tie to even, in tenths                          *)
FormatTenths(f) == ValueOf(RoundShift(TimesSmall(f.m, 10, 0), 0 - f.e))

(* pass_count / total * 100 formatted to one decimal place, in tenths of  *)
(* a percent; -1 stands for the text N/A                                  *)
PassRate(pass, total) ==
    IF total > 0
    THEN IF pass = 0 THEN 0
         ELSE FormatTenths(FloatTimes(FloatDivide(pass, total), 100))
    ELSE -1

SummaryRow(name, pass, fail, removed) ==
    [name |-> name, pass |-> pass, fail |-> fail, removed |-> removed,
     rate |-> PassRate(pass, pass + fail + removed)]

SummaryRows(st) ==
    << SummaryRow("Self Containment", st.self_containment.pass, st.self_containment.fail, 0),
       SummaryRow("Difficulty", st.difficulty.pass, st.difficulty.fail, st.difficulty.removed),
       SummaryRow("Useful Derivation", st.useful_derivation.pass,
                  st.useful_derivation.fail, st.useful_derivation.removed),
       SummaryRow("Refinement Success", st.refinement.success, st.refinement.fail, 0) >>

RECURSIVE TallyAll(_, _)
TallyAll(st, data) ==
    IF data = <<>> THEN st ELSE TallyAll(Tally(st, Head(data)), Tail(data))

generate_summary_table(data) ==
    IF \E i \in 1..Len(data) : SummaryRaises(data[i])
    THEN [raised |-> TRUE, rows |-> <<>>]
    ELSE [raised |-> FALSE, rows |-> SummaryRows(TallyAll(ZeroStats, data))]

(***************************************************************************)
(* format_critique_section                                                 *)
(***************************************************************************)
StatusText(c, status) ==
    CASE c = "self_containment" -> IF status THEN "Self-contained" ELSE "Not self-contained"
      [] c = "difficulty" -> IF status THEN "Non-trivial" ELSE "Trivial"
      [] c = "useful_derivation" -> IF status THEN "Useful" ELSE "Useless"
      [] OTHER -> "Unknown"

(* issue.get on an issue that is not an object *)
CritiqueRaises(v) == v.kind = "obj" /\ ~v.error /\ v.issues = "bad"

(* the flag of a known category; an unknown category has status False *)
Status(c, v) == c \in Categories /\ Truthy(v.flag, FALSE)

format_critique_section(c, v) ==
    IF v.kind = "obj" /\ ~v.error
    THEN [kind |-> "status",
          color |-> IF Status(c, v) THEN "pass" ELSE "fail",
          text |-> StatusText(c, Status(c, v)),
          issues |-> v.issues = "ok"]
    ELSE [kind |-> "error", color |-> "fail", text |-> "Error parsing critique",
          issues |-> FALSE]

NoSubsection == [kind |-> "none", color |-> "", text |-> "", issues |-> FALSE]

(***************************************************************************)
(* generate_critiques_section: one record                                  *)
(***************************************************************************)
NoSolutionText == <<"N", "o", " ", "s", "o", "l", "u", "t", "i", "o", "n">>
NotApplicable == <<"N", "/", "A">>
MarkedForRemoval == <<"M", "a", "r", "k", "e", "d", " ", "f", "o", "r", " ",
                      "r", "e", "m", "o", "v", "a", "l">>
(* a problem statement holding a lone surrogate, as the JSON escape \ud800 *)
(* loads: the text is rendered as it is and has no UTF-8 encoding          *)
UnencodableStatement == "problem_statement with a lone surrogate"
PaperIdText == <<"p", "_", "1">>
ReasonText == <<"5", "0", "%", " ", "o", "f", "f">>

(* the value held under a solution key, by the kind the record carries *)
SolutionValue(kind) ==
    CASE kind = "absent" -> Str(NoSolutionText)
      [] kind = "plain" -> Str(<<"$", "x", "=", "1", "$">>)
      [] kind = "boxed" -> Str(<<"$">> \o Boxed \o <<"{", "x", "}", "$">>)
      [] OTHER -> NonStr

(* the substring test of lines 205 and 265 on a value that is null *)
SolutionRaises(kind) == kind = "null"

RenderSolution(kind) ==
    LET v == SolutionValue(kind)
    IN  format_tex_display_math(IF v.isStr THEN Str(FixBoxedBraces(v.chars)) ELSE v)

TextValue(kind, text, default) ==
    CASE kind = "absent" -> Str(default)
      [] kind = "text" -> Str(text)
      [] OTHER -> NonStr

NoOutcome == [kind |-> "none", notice |-> <<>>, statement |-> "", solution |-> <<>>]

RefinedOutcome(e) ==
    IF RefinedIsCleanObject(e)
    THEN [NoOutcome EXCEPT !.kind = "refined",
              !.statement = IF e.refined.statementKey = "absent"
                            THEN "No refined problem statement"
                            ELSE e.refined.statementKey,
              !.solution = RenderSolution(IF e.refined.solutionKey = "absent"
                                          THEN "absent" ELSE e.refined.solution)]
    ELSE [NoOutcome EXCEPT !.kind = "refine_error"]

RemovalNotice(e) ==
    [NoOutcome EXCEPT !.kind = "removed",
         !.notice = escape_latex(TextValue(e.reason, ReasonText, MarkedForRemoval))]

OutcomeIncludedFirst(e) ==
    IF ~Truthy(e.included, TRUE)
    THEN [NoOutcome EXCEPT !.kind = "excluded"]
    ELSE IF Truthy(e.removed, FALSE)
    THEN RemovalNotice(e)
    ELSE RefinedOutcome(e)
Outcome(e) ==
    IF Truthy(e.removed, FALSE)
    THEN RemovalNotice(e)
    ELSE IF ~Truthy(e.included, TRUE)
    THEN [NoOutcome EXCEPT !.kind = "excluded"]
    ELSE RefinedOutcome(e)

(* the refined solution is read only on the branch that renders it *)
OutcomeRaises(e) ==
    /\ ~Truthy(e.removed, FALSE)
    /\ Truthy(e.included, TRUE)
    /\ RefinedIsCleanObject(e)
    /\ e.refined.solutionKey # "absent"
    /\ SolutionRaises(e.refined.solution)

RenderRaises(e) ==
    \/ e.original.kind = "nonobj"
    \/ e.original.kind = "obj" /\ SolutionRaises(e.original.solution)
    \/ e.critiques.kind = "null"
    \/ SubscriptRaises(e)
    \/ \E c \in Categories : HasCategory(e, c) /\ CritiqueRaises(e.critiques[c])
    \/ OutcomeRaises(e)

RenderEntry(i, e) ==
    [index |-> i,
     paper |-> escape_latex(TextValue(e.paper_id, PaperIdText, NotApplicable)),
     statement |-> IF e.original.kind = "obj" /\ e.original.statement # "absent"
                   THEN IF e.original.statement = "surrogate"
                        THEN UnencodableStatement ELSE "problem_statement"
                   ELSE "No problem statement",
     solution |-> RenderSolution(IF e.original.kind = "obj"
                                 THEN e.original.solution ELSE "absent"),
     critiques |-> [c \in Categories |->
                       IF HasCategory(e, c)
                       THEN format_critique_section(c, e.critiques[c])
                       ELSE NoSubsection],
     outcome |-> Outcome(e)]

NoSection == [index |-> 0, paper |-> <<>>, statement |-> "", solution |-> <<>>,
              critiques |-> [c \in Categories |-> NoSubsection], outcome |-> NoOutcome]

RECURSIVE RenderAll(_, _)
RenderAll(i, data) ==
    IF data = <<>> THEN <<>>
    ELSE <<RenderEntry(i, Head(data))>> \o RenderAll(i + 1, Tail(data))

generate_critiques_section(data) ==
    IF \E i \in 1..Len(data) : RenderRaises(data[i])
    THEN [raised |-> TRUE, sections |-> <<>>]
    ELSE [raised |-> FALSE, sections |-> RenderAll(1, data)]

(***************************************************************************)
(* Values of the variables a specification does not use.                   *)
(***************************************************************************)
NoFile == [exists |-> FALSE, json |-> "none", data |-> <<>>]
(* the output path: whether a file is there, whether it can be opened for *)
(* writing (its directory exists and permits it), and what the file holds: *)
(* "none", "earlier" content, "empty" or a generated "report"              *)
NoDocument == [exists |-> FALSE, openable |-> TRUE, content |-> "none",
               rows |-> <<>>, sections |-> <<>>]

TextIdle ==
    /\ entry = NoEntry /\ idx = 0 /\ stats = ZeroStats /\ before = ZeroStats
    /\ section = NoSection /\ raised = FALSE
    /\ inputFile = NoFile /\ outputFile = NoDocument /\ console = <<>>

TextUnchanged ==
    UNCHANGED <<entry, idx, stats, before, section, raised, inputFile, outputFile, console>>

(***************************************************************************)
(* SpecEscape: escape_latex applied to an input value.                     *)
(***************************************************************************)
EscAlphabet == Reserved \cup {BS, "a"}
EscInputs(maxLen) ==
    { Str(s) : s \in UNION { [1..k -> EscAlphabet] : k \in 0..maxLen } } \cup {NonStr}

EscapeInit ==
    /\ pc = "call" /\ arg \in EscInputs(MaxEscLen) /\ ret = <<>> /\ ret2 = <<>> /\ TextIdle

CallEscape ==
    /\ pc = "call"
    /\ ret' = escape_latex(arg)
    /\ pc' = "returned"
    /\ UNCHANGED <<arg, ret2>> /\ TextUnchanged

EscapeNext == CallEscape
SpecEscape == EscapeInit /\ [][EscapeNext]_vars

(***************************************************************************)
(* SpecFormat: format_tex_display_math applied to an input value, and then *)
(* to its own output.                                                      *)
(***************************************************************************)
FmtTokens == { <<BS, "[">>, <<BS, "]">>, <<BS, "(">>, <<BS, ")">>,
               <<"$">>, <<"x">>, <<" ">>, <<NL>> }
FmtInputs(maxTokens) == { Str(s) : s \in TokenStrings(FmtTokens, maxTokens) } \cup {NonStr}

FormatInit ==
    /\ pc = "call" /\ arg \in FmtInputs(MaxFmtTokens) /\ ret = <<>> /\ ret2 = <<>> /\ TextIdle

CallFormat ==
    /\ pc = "call"
    /\ ret' = format_tex_display_math(arg)
    /\ pc' = "returned"
    /\ UNCHANGED <<arg, ret2>> /\ TextUnchanged

CallFormatAgain ==
    /\ pc = "returned"
    /\ ret2' = format_tex_display_math(Str(ret))
    /\ pc' = "again"
    /\ UNCHANGED <<arg, ret>> /\ TextUnchanged

FormatNext == CallFormat \/ CallFormatAgain
SpecFormat == FormatInit /\ [][FormatNext]_vars

(***************************************************************************)
(* SpecRepair: the brace repair applied to a solution string.              *)
(***************************************************************************)
BraceTokens == { <<BS, "b", "o", "x", "e", "d">>, <<"{">>, <<"}">>, <<"x">> }
BraceInputs(maxTokens) == { Str(s) : s \in TokenStrings(BraceTokens, maxTokens) }

RepairInit ==
    /\ pc = "call" /\ arg \in BraceInputs(MaxBraceTokens) /\ ret = <<>> /\ ret2 = <<>> /\ TextIdle

CallRepair ==
    /\ pc = "call"
    /\ ret' = FixBoxedBraces(arg.chars)
    /\ pc' = "returned"
    /\ UNCHANGED <<arg, ret2>> /\ TextUnchanged

RepairNext == CallRepair
SpecRepair == RepairInit /\ [][RepairNext]_vars

(***************************************************************************)
(* SpecSummary: the loop of generate_summary_table, one record per step.   *)
(* The array is any sequence of at most MaxRecords records.                *)
(***************************************************************************)
Category(kind, flag, error, issues) ==
    [kind |-> kind, flag |-> flag, error |-> error, issues |-> issues]

CritiquesObject(sc, df, ud) ==
    [kind |-> "obj", self_containment |-> sc, difficulty |-> df, useful_derivation |-> ud]

ElementCategory == Category("element", "absent", FALSE, "absent")

CritiquesList(sc, df, ud) ==
    [kind |-> "list", self_containment |-> sc, difficulty |-> df, useful_derivation |-> ud]

CritiquesLists ==
    { CritiquesList(sc, df, ud) :
        sc \in {NoCategory, ElementCategory}, df \in {NoCategory, ElementCategory},
        ud \in {NoCategory, ElementCategory} }

SummaryCategories ==
    {NoCategory, Category("nonobj", "absent", FALSE, "absent")}
        \cup { Category("obj", f, FALSE, "absent") : f \in Tri }

SummaryCritiques ==
    {NoCritiques, [NoCritiques EXCEPT !.kind = "null"]} \cup CritiquesLists
        \cup { CritiquesObject(sc, df, ud) :
                 sc \in SummaryCategories, df \in SummaryCategories, ud \in SummaryCategories }

SummaryRefined ==
    {NoRefined, [NoRefined EXCEPT !.kind = "nonobj"], [NoRefined EXCEPT !.kind = "obj"],
     [NoRefined EXCEPT !.kind = "obj", !.error = TRUE]}

SummaryEntries ==
    { [NoEntry EXCEPT !.removed = r, !.critiques = c, !.refined = f] :
        r \in Tri, c \in SummaryCritiques, f \in SummaryRefined }

LoopIdle ==
    /\ arg = NonStr /\ ret2 = <<>>
    /\ inputFile = NoFile /\ outputFile = NoDocument /\ console = <<>>

LoopUnchanged == UNCHANGED <<arg, ret2, inputFile, outputFile, console>>

SummaryInit ==
    /\ pc = "loop" /\ idx = 0 /\ entry = NoEntry
    /\ stats = ZeroStats /\ before = ZeroStats
    /\ section = NoSection /\ raised = FALSE /\ ret = <<>> /\ LoopIdle

(* one iteration of the loop on the next record of the array *)
SummaryStep ==
    /\ pc = "loop" /\ idx < MaxRecords
    /\ \E e \in SummaryEntries :
         /\ entry' = e
         /\ before' = stats
         /\ IF SummaryRaises(e)
            THEN /\ raised' = TRUE /\ pc' = "raised"
                 /\ UNCHANGED <<idx, stats>>
            ELSE /\ stats' = Tally(stats, e)
                 /\ idx' = idx + 1 /\ pc' = "iterated"
                 /\ UNCHANGED raised
    /\ UNCHANGED <<section, ret>> /\ LoopUnchanged

(* back to the loop header: the record of the finished iteration is dropped *)
SummaryAdvance ==
    /\ pc = "iterated"
    /\ pc' = "loop" /\ entry' = NoEntry /\ before' = stats
    /\ UNCHANGED <<idx, stats, section, raised, ret>> /\ LoopUnchanged

(* the array is exhausted: the table is rendered from the counters *)
SummaryReturn ==
    /\ pc = "loop"
    /\ ret' = SummaryRows(stats)
    /\ pc' = "returned"
    /\ UNCHANGED <<entry, idx, stats, before, section, raised>> /\ LoopUnchanged

SummaryNext == SummaryStep \/ SummaryAdvance \/ SummaryReturn
SpecSummary == SummaryInit /\ [][SummaryNext]_vars

(***************************************************************************)
(* SpecRender: the loop of generate_critiques_section, one record per step *)
(***************************************************************************)
Original(statement, solution) ==
    [kind |-> "obj", statement |-> statement, solution |-> solution]

Refined(statementKey, solutionKey, solution) ==
    [kind |-> "obj", error |-> FALSE, statementKey |-> statementKey,
     solutionKey |-> solutionKey, solution |-> solution]

RenderOriginals ==
    {NoOriginal, [NoOriginal EXCEPT !.kind = "nonobj"],
     Original("absent", "absent"), Original("text", "plain"), Original("text", "boxed"),
     Original("surrogate", "plain"), Original("text", "null")}

RenderCategories ==
    {NoCategory, Category("nonobj", "absent", FALSE, "absent"),
     Category("obj", "true", TRUE, "absent"),
     Category("obj", "true", FALSE, "ok"), Category("obj", "false", FALSE, "bad")}

RenderCritiques ==
    {NoCritiques, [NoCritiques EXCEPT !.kind = "null"]} \cup CritiquesLists
        \cup { CritiquesObject(sc, df, ud) :
                 sc \in RenderCategories, df \in RenderCategories, ud \in RenderCategories }

RenderRefined ==
    {NoRefined, [NoRefined EXCEPT !.kind = "nonobj"],
     [NoRefined EXCEPT !.kind = "obj", !.error = TRUE],
     Refined("absent", "absent", "absent"),
     Refined("problem_statement", "final_solution", "plain"),
     Refined("question", "answer", "boxed"),
     Refined("problem_statement", "final_solution", "null")}

CritiqueRecord(p, r, n, w, o, c, f) ==
    [paper_id |-> p, removed |-> r, included |-> n, reason |-> w,
     original |-> o, critiques |-> c, refined |-> f]

RenderInit ==
    /\ pc = "loop" /\ idx = 0 /\ entry = NoEntry
    /\ stats = ZeroStats /\ before = ZeroStats
    /\ section = NoSection /\ raised = FALSE /\ ret = <<>> /\ LoopIdle

(* one iteration of the loop on the next record of the array *)
RenderStep ==
    /\ pc = "loop" /\ idx < MaxRecords
    /\ \E p \in {"absent", "text"}, r \in Tri, n \in Tri,
          w \in {"absent", "text", "nontext"},
          o \in RenderOriginals, c \in RenderCritiques, f \in RenderRefined :
         LET e == CritiqueRecord(p, r, n, w, o, c, f) IN
         /\ entry' = e
         /\ IF RenderRaises(e)
            THEN /\ raised' = TRUE /\ pc' = "raised"
                 /\ UNCHANGED <<idx, section>>
            ELSE /\ section' = RenderEntry(idx + 1, e)
                 /\ idx' = idx + 1 /\ pc' = "iterated"
                 /\ UNCHANGED raised
    /\ UNCHANGED <<stats, before, ret>> /\ LoopUnchanged

(* back to the loop header: the section has been appended to the text *)
RenderAdvance ==
    /\ pc = "iterated"
    /\ pc' = "loop" /\ entry' = NoEntry /\ section' = NoSection
    /\ UNCHANGED <<idx, stats, before, raised, ret>> /\ LoopUnchanged

RenderReturn ==
    /\ pc = "loop"
    /\ pc' = "returned"
    /\ UNCHANGED <<entry, idx, stats, before, section, raised, ret>> /\ LoopUnchanged

RenderNext == RenderStep \/ RenderAdvance \/ RenderReturn
SpecRender == RenderInit /\ [][RenderNext]_vars

(***************************************************************************)
(* Spec: export_critiques_to_tex on a file system holding (or not) the     *)
(* critiques file and (or not) an earlier output file.                     *)
(***************************************************************************)
ExportEntries ==
    { [NoEntry EXCEPT !.removed = r, !.original = o, !.critiques = c] :
        r \in {"true", "false"},
        o \in {NoOriginal, [NoOriginal EXCEPT !.kind = "nonobj"], Original("text", "boxed"),
               Original("surrogate", "boxed")},
        c \in {NoCritiques, CritiquesList(NoCategory, ElementCategory, NoCategory),
               CritiquesObject(NoCategory, Category("obj", "true", FALSE, "ok"),
                               Category("obj", "true", FALSE, "absent"))} }

ExportArrays == UNION { [1..k -> ExportEntries] : k \in 0..MaxExportRecords }

InputFiles ==
    {NoFile, [exists |-> TRUE, json |-> "invalid", data |-> <<>>]}
        \cup { [exists |-> TRUE, json |-> "array", data |-> d] : d \in ExportArrays }

StaleDocument == [NoDocument EXCEPT !.exists = TRUE, !.content = "earlier"]
OutputPaths ==
    { [d EXCEPT !.openable = w] : d \in {NoDocument, StaleDocument}, w \in BOOLEAN }

NotFoundMessage == "Error: Critiques file not found"
SuccessMessages == <<"LaTeX critiques report successfully generated",
                     "You can now compile this file using a LaTeX distribution">>

ExportIdle ==
    /\ arg = NonStr /\ ret = <<>> /\ ret2 = <<>> /\ entry = NoEntry /\ idx = 0
    /\ stats = ZeroStats /\ before = ZeroStats /\ section = NoSection

ExportUnchanged == UNCHANGED <<arg, ret, ret2, entry, idx, stats, before, section, inputFile>>

Init ==
    /\ pc = "start" /\ raised = FALSE /\ console = <<>>
    /\ inputFile \in InputFiles
    /\ outputFile \in OutputPaths
    /\ ExportIdle

(* whether the text of the sections has a UTF-8 encoding *)
Encodable(sections) ==
    \A i \in 1..Len(sections) : sections[i].statement # UnencodableStatement

(* json.load, both generators, the open for writing (which creates or     *)
(* empties the file), the write (which encodes the whole text first) and   *)
(* the two prints                                                          *)
LoadGenerateWrite ==
    IF inputFile.json # "array"
    THEN /\ raised' = TRUE /\ pc' = "raised"
         /\ UNCHANGED <<outputFile, console>>
    ELSE LET summary == generate_summary_table(inputFile.data)
             details == generate_critiques_section(inputFile.data)
         IN  IF summary.raised \/ details.raised \/ ~outputFile.openable
             THEN /\ raised' = TRUE /\ pc' = "raised"
                  /\ UNCHANGED <<outputFile, console>>
             ELSE IF ~Encodable(details.sections)
             THEN /\ outputFile' = [NoDocument EXCEPT !.exists = TRUE, !.content = "empty"]
                  /\ raised' = TRUE /\ pc' = "raised"
                  /\ UNCHANGED console
             ELSE /\ outputFile' = [NoDocument EXCEPT !.exists = TRUE, !.content = "report",
                                        !.rows = summary.rows,
                                        !.sections = details.sections]
                  /\ console' = SuccessMessages
                  /\ pc' = "returned"
                  /\ UNCHANGED raised

export_without_exists_check ==
    /\ pc = "start"
    /\ LoadGenerateWrite
    /\ ExportUnchanged
export_critiques_to_tex ==
    /\ pc = "start"
    /\ IF ~inputFile.exists
       THEN /\ console' = <<NotFoundMessage>>
            /\ pc' = "returned"
            /\ UNCHANGED <<outputFile, raised>>
       ELSE LoadGenerateWrite
    /\ ExportUnchanged

Next == export_critiques_to_tex
Spec == Init /\ [][Next]_vars

(***************************************************************************)
(* Properties.                                                             *)
(***************************************************************************)
Tallied == pc = "iterated" /\ ~raised

(* C1 (SpecSummary): a record with removed = true that holds an object for *)
(* difficulty (resp. useful_derivation) adds one to that category's        *)
(* removed counter and leaves its pass and fail counters unchanged,        *)
(* whatever the category flag.  The code contradicts it for                *)
(* useful_derivation when the flag is true or absent.                      *)
CexC1 ==
    (Tallied /\ entry.removed = "true") =>
        \A c \in {"difficulty", "useful_derivation"} :
            HoldsObject(entry, c) =>
                /\ stats[c].removed = before[c].removed + 1
                /\ stats[c].pass = before[c].pass
                /\ stats[c].fail = before[c].fail

(* C2 (SpecSummary): a removed record leaves the refinement counters       *)
(* alone; any other record adds one to success exactly when its refined    *)
(* problem is present, is an object and has no error field, and adds one   *)
(* to fail otherwise.  The code counts an absent refined problem as a      *)
(* success.                                                                *)
CexC2 ==
    Tallied =>
        IF entry.removed = "true"
        THEN stats.refinement = before.refinement
        ELSE IF entry.refined.kind = "obj" /\ ~entry.refined.error
        THEN /\ stats.refinement.success = before.refinement.success + 1
             /\ stats.refinement.fail = before.refinement.fail
        ELSE /\ stats.refinement.fail = before.refinement.fail + 1
             /\ stats.refinement.success = before.refinement.success

(* the original problem and the critiques of the record have the JSON      *)
(* types of the data model (keys may be missing)                           *)
RecordWellTyped(e) ==
    /\ e.original.kind # "nonobj"
    /\ e.original.solution # "null"
    /\ e.critiques.kind \in {"absent", "obj"}
    /\ \A c \in Categories : e.critiques[c].issues # "bad"

ExpectedNotice(reason) ==
    CASE reason = "absent" -> MarkedForRemoval
      [] reason = "text" -> <<"5", "0", BS, "%", " ", "o", "f", "f">>
      [] OTHER -> <<>>

(* C3 (SpecRender): the outcome subsection of a record is chosen by        *)
(* precedence: removed = true gives the removal notice with the escaped    *)
(* removal_reason (the default text when absent), whatever                 *)
(* included_in_dataset and refined_problem are; otherwise                  *)
(* included_in_dataset = false gives the exclusion notice; otherwise the   *)
(* Refined Problem subsection is rendered and no removal or exclusion      *)
(* notice.  Stated for records whose original problem and critiques are    *)
(* well typed, on which the renderer must not raise either.                *)
ThmC3 ==
    (pc \in {"iterated", "raised"} /\ RecordWellTyped(entry)) =>
        IF entry.removed = "true"
        THEN /\ ~raised
             /\ section.outcome.kind = "removed"
             /\ section.outcome.notice = ExpectedNotice(entry.reason)
        ELSE IF entry.included = "false"
        THEN /\ ~raised
             /\ section.outcome.kind = "excluded"
             /\ section.outcome.notice = <<>>
        ELSE entry.refined.solution # "null" =>
             /\ ~raised
             /\ section.outcome.kind \in {"refined", "refine_error"}
             /\ section.outcome.notice = <<>>

WitC3 ==
    /\ pc = "iterated" /\ idx = 2
    /\ entry.removed = "true" /\ entry.included = "false"
    /\ entry.refined.kind = "obj" /\ ~entry.refined.error
    /\ entry.reason = "text"
    /\ section.outcome.kind = "removed"
    /\ section.outcome.notice = <<"5", "0", BS, "%", " ", "o", "f", "f">>

(* C4 (SpecRender): a record with removed = false and included_in_dataset  *)
(* = true shows the error notice whenever its refined problem is absent,   *)
(* is not an object or has an error field.  The code renders an absent     *)
(* refined problem as an empty object: placeholders, no error notice.      *)
CexC4 ==
    ( /\ pc = "iterated"
      /\ entry.removed = "false" /\ entry.included = "true"
      /\ (entry.refined.kind \in {"absent", "nonobj"} \/ entry.refined.error) )
        => section.outcome.kind = "refine_error"

(* C5 (SpecRender): whatever the shape of the records, the renderer        *)
(* completes without raising.  The code raises on an original problem or   *)
(* an issue that is not an object, on null critiques, on a critiques list  *)
(* that holds a category name and on a null solution.                      *)
CexC5 == ~raised /\ pc # "raised"

(* C6 (SpecFormat): format_tex_display_math applied to its own output      *)
(* returns that output.  The code wraps a multi-line block a second time   *)
(* and unwraps a further layer of a block such as $\(x\)$.                 *)
CexC6 == pc = "again" => ret2 = ret

FirstMatch(t) == SetMin({ k \in 1..4 : Matches(k, t) })

(* C7 as stated (SpecFormat): only the first pattern that matches is       *)
(* unwrapped                                                               *)
CexC7 ==
    (pc = "returned" /\ arg.isStr) =>
        LET t == Strip(arg.chars)
        IN  ret = DisplayMath(IF \E k \in 1..4 : Matches(k, t)
                              THEN Strip(Inner(FirstMatch(t), t)) ELSE t)

(* C7 as amended (SpecFormat): the four patterns are applied in order,     *)
(* each once, to the trimmed result of the one before.  When no pattern    *)
(* matches the trimmed input, the block holds it unchanged.  When the      *)
(* first pattern to match leaves a text wrapped in the delimiters of a     *)
(* pattern later in the order, that layer is removed too (so more than one *)
(* layer can go); otherwise the block holds exactly what the first match   *)
(* left, and delimiters of the same or an earlier pattern nested inside    *)
(* stay in the block.                                                      *)
ThmC7 ==
    (pc = "returned" /\ arg.isStr) =>
        LET t == Strip(arg.chars)
        IN  IF \E k \in 1..4 : Matches(k, t)
            THEN LET k == FirstMatch(t)
                     u == Strip(Inner(k, t))
                 IN  IF \E j \in (k + 1)..4 : Matches(j, u)
                     THEN Len(ret) < Len(DisplayMath(u))
                     ELSE ret = DisplayMath(u)
            ELSE ret = DisplayMath(t)

WitC7 ==
    /\ pc = "returned"
    /\ arg = Str(<<BS, "[", BS, "(", "x", BS, ")", BS, "]">>)
    /\ ret = <<BS, "[", " ", "x", " ", BS, "]">>

ReservedCount(s, i) ==
    Cardinality({ j \in 1..i : s[j] \in {"&", "%", "$", "#", "_", "{", "}"} })

(* C8 (SpecEscape): escape_latex returns the empty text for a value that   *)
(* is not text; for a text it returns the text with one backslash inserted *)
(* immediately before each & % $ # _ { } and every other character kept,   *)
(* in order.                                                               *)
ThmC8 ==
    pc = "returned" =>
        IF ~arg.isStr THEN ret = <<>>
        ELSE LET s == arg.chars
             IN  /\ Len(ret) = Len(s) + ReservedCount(s, Len(s))
                 /\ \A i \in 1..Len(s) :
                        LET p == i + ReservedCount(s, i)
                        IN  /\ ret[p] = s[i]
                            /\ ReservedCount(s, i) > ReservedCount(s, i - 1) => ret[p - 1] = BS

WitC8 ==
    /\ pc = "returned"
    /\ arg = Str(<<"a", "{", BS, "_", "}">>)
    /\ ret = <<"a", BS, "{", BS, BS, "_", BS, "}">>

Excess(s) == Count(s, "{") - Count(s, "}")

(* C9 (SpecRepair): a solution string that contains \boxed{ and has N > 0  *)
(* more open than close braces is repaired to the string followed by       *)
(* exactly N closing braces, which has as many close as open braces.       *)
ThmC9 ==
    (pc = "returned" /\ Contains(arg.chars, Boxed) /\ Excess(arg.chars) > 0) =>
        /\ Len(ret) = Len(arg.chars) + Excess(arg.chars)
        /\ SubSeq(ret, 1, Len(arg.chars)) = arg.chars
        /\ \A i \in (Len(arg.chars) + 1)..Len(ret) : ret[i] = "}"
        /\ Count(ret, "{") = Count(ret, "}")

WitC9 ==
    /\ pc = "returned"
    /\ arg = Str(<<"{", "x", "}">> \o Boxed \o <<"{", "x">>)
    /\ ret = <<"{", "x", "}">> \o Boxed \o <<"{", "x", "}", "}">>

(* C10 (Spec): when the input path does not exist the run prints the error *)
(* and returns, raises nothing and leaves the output file as it was; the   *)
(* output file changes only in a run whose input path exists.              *)
ThmC10 ==
    [][ /\ (pc = "start" /\ ~inputFile.exists) =>
            /\ pc' = "returned" /\ ~raised'
            /\ console' = <<NotFoundMessage>>
            /\ outputFile' = outputFile
        /\ outputFile' # outputFile => inputFile.exists ]_vars

WitC10 ==
    /\ pc = "returned" /\ ~raised
    /\ ~inputFile.exists
    /\ console = <<NotFoundMessage>>
    /\ outputFile = StaleDocument

====
